---- MODULE Spec2Model ----
(***************************************************************************)
(* Model of script.js of antoniocali/wollama: the hardware scoring, the    *)
(* filter / score / sort pass of filterAndRender, the paginated list with  *)
(* its "Show more" controls, and the start-up sequence of init().          *)
(*                                                                         *)
(* Conventions.  A JavaScript string is a sequence of one-character        *)
(* strings; an absent (undefined / null) string is the empty sequence,     *)
(* which the code treats the same way everywhere it reads one (|| "",      *)
(* join, truthiness).  An optional number or array is None or Some(v).     *)
(* An element of the catalog array is a reference to a record object: the  *)
(* index of the object in the store `records`.                             *)
(***************************************************************************)
EXTENDS Integers, Sequences, FiniteSets, TLC

VARIABLES
    pc,            \* position of init(): "loading" (awaiting loadModels) or "ready"
    records,       \* store of the record objects of models.json, by reference
    models,        \* the `models` array of init(): references into records
    hw,            \* the profile detectHardware() returned
    searchInput,   \* value of #search-input
    purposeSelect, \* value of #purpose-select
    toolsSelect,   \* value of #tools-select
    listText,      \* text content of #models-list outside the cards
    listEl,        \* the .wm-model cards of #models-list, in document order
    summaryEl,     \* text of #results-summary
    wrappers,      \* the show-more wrappers appended to the parent of #models-list
    scored,        \* the `scored` array of the latest filterAndRender pass
    lastEvent,     \* the event handled last (history)
    call           \* application of a pure function (specifications SpecScore, SpecRank)

vars == <<pc, records, models, hw, searchInput, purposeSelect, toolsSelect,
          listText, listEl, summaryEl, wrappers, scored, lastEvent, call>>

pageVars == <<pc, records, models, hw, searchInput, purposeSelect, toolsSelect,
              listText, listEl, summaryEl, wrappers, scored, lastEvent>>

----------------------------------------------------------------------------
(* Values *)

None == <<>>
Some(v) == <<v>>
Has(x) == x # <<>>
Val(x) == x[1]

Min(a, b) == IF a <= b THEN a ELSE b

\* A sequence given as a function on 1..n, as an explicit tuple.
Tuple(f) == <<>> \o f

\* "abc" as a sequence of characters is written <<"a","b","c">>.
LowerChar(c) ==
    CASE c = "A" -> "a"
      [] c = "G" -> "g"
      [] c = "M" -> "m"
      [] c = "P" -> "p"
      [] c = "R" -> "r"
      [] c = "T" -> "t"
      [] c = "X" -> "x"
      [] OTHER -> c

\* String.prototype.toLowerCase
toLowerCase(s) == Tuple([i \in 1..Len(s) |-> LowerChar(s[i])])

\* String.prototype.includes
includes(h, n) ==
    \E i \in 0..(Len(h) - Len(n)) : SubSeq(h, i + 1, i + Len(n)) = n

\* String.prototype.trim (the only white space in the alphabet is " ")
RECURSIVE TrimLeft(_)
TrimLeft(s) ==
    IF s # <<>> /\ Head(s) = " " THEN TrimLeft(Tail(s)) ELSE s

RECURSIVE TrimRight(_)
TrimRight(s) ==
    IF s # <<>> /\ s[Len(s)] = " " THEN TrimRight(SubSeq(s, 1, Len(s) - 1)) ELSE s

trim(s) == TrimRight(TrimLeft(s))

\* String.prototype.split(" "): the pieces between single spaces; "" gives [""]
RECURSIVE SplitFrom(_, _, _)
SplitFrom(s, i, cur) ==
    IF i > Len(s) THEN <<cur>>
    ELSE IF s[i] = " " THEN <<cur>> \o SplitFrom(s, i + 1, <<>>)
    ELSE SplitFrom(s, i + 1, Append(cur, s[i]))

split(s) == SplitFrom(s, 1, <<>>)

\* Array.prototype.join(" ") over strings (an undefined element joins as "")
RECURSIVE join(_)
join(parts) ==
    IF parts = <<>> THEN <<>>
    ELSE IF Len(parts) = 1 THEN parts[1]
    ELSE parts[1] \o <<" ">> \o join(Tail(parts))

----------------------------------------------------------------------------
(* scoreModelForHardware, script.js 142-171 *)

\* model.hardware_profile || {}
EmptyProf == [arch |-> "undefined", min_ram_gb |-> None, min_cores |-> None]

ProfOf(model) ==
    IF Has(model.hardware_profile) THEN Val(model.hardware_profile) ELSE EmptyProf

\* An index slip: the first token of the entry instead of the second.
FirstToken(s) == split(toLowerCase(s))[1]

\* String(s).toLowerCase().split(" ")[1] || ""
SecondToken(s) ==
    LET parts == split(toLowerCase(s))
    IN IF Len(parts) >= 2 THEN parts[2] ELSE <<>>

\* model.recommended_for.some(s => g.includes(token(s)))
GpuMatch(model, g) ==
    \E k \in 1..Len(Val(model.recommended_for)) :
        includes(g, SecondToken(Val(model.recommended_for)[k]))

\* A slip of the memory branch: insufficient memory left unscored.
scoreNoPenalty(model, h) ==
    IF ~Has(h) THEN 0
    ELSE
      LET p == Val(h)
          prof == ProfOf(model)
          s1 == IF p.isAppleSilicon /\ prof.arch = "arm64" THEN 3 ELSE 0
          s2 == s1 + (IF ~p.isAppleSilicon /\ prof.arch = "x86_64" THEN 2 ELSE 0)
          s3 == s2 + (IF Has(p.approxMemoryGb) /\ Has(prof.min_ram_gb)
                         /\ Val(p.approxMemoryGb) >= Val(prof.min_ram_gb)
                      THEN 3 ELSE 0)
          s4 == s3 + (IF Has(p.cores) /\ Has(prof.min_cores)
                         /\ Val(p.cores) >= Val(prof.min_cores)
                      THEN 1 ELSE 0)
          s5 == s4 + (IF p.gpu # <<>> /\ Has(model.recommended_for)
                         /\ GpuMatch(model, toLowerCase(p.gpu))
                      THEN 2 ELSE 0)
      IN s5

scoreModelForHardware(model, h) ==
    IF ~Has(h) THEN 0
    ELSE
      LET p == Val(h)
          prof == ProfOf(model)
          s1 == IF p.isAppleSilicon /\ prof.arch = "arm64" THEN 3 ELSE 0
          s2 == s1 + (IF ~p.isAppleSilicon /\ prof.arch = "x86_64" THEN 2 ELSE 0)
          s3 == s2 + (IF Has(p.approxMemoryGb) /\ Has(prof.min_ram_gb)
                      THEN (IF Val(p.approxMemoryGb) >= Val(prof.min_ram_gb)
                            THEN 3 ELSE -2)
                      ELSE 0)
          s4 == s3 + (IF Has(p.cores) /\ Has(prof.min_cores)
                         /\ Val(p.cores) >= Val(prof.min_cores)
                      THEN 1 ELSE 0)
          s5 == s4 + (IF p.gpu # <<>> /\ Has(model.recommended_for)
                         /\ GpuMatch(model, toLowerCase(p.gpu))
                      THEN 2 ELSE 0)
      IN s5

----------------------------------------------------------------------------
(* The filter / score / sort part of filterAndRender, script.js 176-215 *)

\* [m.model_name, m.display_name, m.provider, m.notes,
\*  ...(m.recommended_for || [])].join(" ").toLowerCase()
haystack(m) ==
    toLowerCase(join(<<m.model_name, m.display_name, m.provider, m.notes>>
                     \o (IF Has(m.recommended_for) THEN Val(m.recommended_for)
                         ELSE <<>>)))

\* if (purpose) filtered = filtered.filter(m => m.purpose === purpose)
purposeFilter(recs, arr, purpose) ==
    IF purpose # ""
    THEN SelectSeq(arr, LAMBDA r : recs[r].purpose = purpose)
    ELSE arr

\* A slip of the tools branch: only "true" is taken for a set criterion.
toolsFilterTrueOnly(recs, arr, tools) ==
    IF tools = "true"
    THEN SelectSeq(arr, LAMBDA r : recs[r].supports_tools = TRUE)
    ELSE arr

\* if (tools) { val = tools === "true"; filter(m => !!m.supports_tools === val) }
toolsFilter(recs, arr, tools) ==
    IF tools # ""
    THEN SelectSeq(arr, LAMBDA r : recs[r].supports_tools = (tools = "true"))
    ELSE arr

\* if (search) filtered = filtered.filter(m => haystack.includes(search))
searchFilter(recs, arr, search) ==
    IF search # <<>>
    THEN SelectSeq(arr, LAMBDA r : includes(haystack(recs[r]), search))
    ELSE arr

\* The insertion step of a sort that is not stable: the new entry goes before
\* the entries of equal score.
InsertUnstable(sorted, e) ==
    LET k == Cardinality({i \in 1..Len(sorted) : sorted[i].score > e.score})
    IN SubSeq(sorted, 1, k) \o <<e>> \o SubSeq(sorted, k + 1, Len(sorted))

\* Array.prototype.sort with (a, b) => b.score - a.score.  The sort is stable
\* (ECMAScript 2019, 22.1.3.27): an entry is placed after every entry that
\* does not compare greater than it, i.e. whose score is >= its own.
InsertByScore(sorted, e) ==
    LET k == Cardinality({i \in 1..Len(sorted) : sorted[i].score >= e.score})
    IN SubSeq(sorted, 1, k) \o <<e>> \o SubSeq(sorted, k + 1, Len(sorted))

RECURSIVE SortFrom(_, _, _)
SortFrom(arr, i, acc) ==
    IF i > Len(arr) THEN acc
    ELSE SortFrom(arr, i + 1, InsertByScore(acc, arr[i]))

sortByScore(arr) == SortFrom(arr, 1, <<>>)

\* filtered.map(m => ({ model: m, score: scoreModelForHardware(m, hw) }))
mapScore(recs, arr, h) ==
    Tuple([i \in 1..Len(arr) |->
            [model |-> arr[i], score |-> scoreModelForHardware(recs[arr[i]], h)]])

\* The arrays of one pass live in a heap, a sequence of arrays: slice, filter
\* and map allocate a new array, sort rearranges the array it is called on.
\* heap[1] is the catalog array the caller passed; the variable `filtered`
\* refers to the last array allocated.
LastOf(heap) == heap[Len(heap)]

\* let filtered = models.slice()
SliceStep(mods) == <<mods, mods>>

PurposeStep(recs, heap, purpose) ==
    IF purpose # "" THEN Append(heap, purposeFilter(recs, LastOf(heap), purpose))
    ELSE heap

ToolsStep(recs, heap, tools) ==
    IF tools # "" THEN Append(heap, toolsFilter(recs, LastOf(heap), tools))
    ELSE heap

SearchStep(recs, heap, search) ==
    IF search # <<>> THEN Append(heap, searchFilter(recs, LastOf(heap), search))
    ELSE heap

\* const scored = filtered.map(...).sort(...): map allocates, sort is in place
ScoreSortStep(recs, heap, h) ==
    Append(heap, sortByScore(mapScore(recs, LastOf(heap), h)))

\* What a pass leaves: the catalog array, `filtered` and `scored`.
PassResult(heap) ==
    [models |-> heap[1], filtered |-> heap[Len(heap) - 1], scored |-> LastOf(heap)]

\* A pass that sorts the catalog array itself by score instead of a copy.
SortCatalogInPlace(recs, mods, h) ==
    LET byScore == sortByScore(mapScore(recs, mods, h))
    IN Tuple([i \in 1..Len(mods) |-> byScore[i].model])

FilterScoreSortInPlace(recs, mods, h, rawSearch, purpose, tools) ==
    PassResult(
      ScoreSortStep(recs,
        SearchStep(recs,
          ToolsStep(recs,
            PurposeStep(recs, <<SortCatalogInPlace(recs, mods, h)>>, purpose),
            tools),
          trim(toLowerCase(rawSearch))),
        h))

FilterScoreSort(recs, mods, h, rawSearch, purpose, tools) ==
    PassResult(
      ScoreSortStep(recs,
        SearchStep(recs,
          ToolsStep(recs,
            PurposeStep(recs, SliceStep(mods), purpose),
            tools),
          trim(toLowerCase(rawSearch))),                     \* 176-179
        h))

----------------------------------------------------------------------------
(* Sample data *)

\* Largest multiple of 8 gigabytes a profile or a hint may state.
MaxRamSteps == 3
RamVals == {8 * k : k \in 1..MaxRamSteps}
\* Largest number of logical cores, counted in pairs.
MaxCorePairs == 2
CoreVals == {2 * k : k \in 1..MaxCorePairs}

sRTX3060 == <<"R", "T", "X", " ", "3", "0", "6", "0">>
sRtx3060Lower == <<"r", "t", "x", " ", "3", "0", "6", "0">>
sAppleM1 == <<"A", "p", "p", "l", "e", " ", "M", "1">>
sApple == <<"A", "p", "p", "l", "e">>
sTwoSpaces == <<"A", "M", "D", " ", " ", "7">>
sGpuNvidia == <<"N", "V", " ", "R", "T", "X", " ", "3", "0", "6", "0">>
sGpuApple == <<"A", "p", "p", "l", "e", " ", "m", "1">>
sGpuIntel == <<"I", "n", "t", "e", "l">>

ArchVals == {"arm64", "x86_64", "unknown", "undefined"}

ProfileHints ==
    {None} \cup
    {Some([arch |-> a, min_ram_gb |-> r, min_cores |-> c]) :
        a \in ArchVals,
        r \in {None} \cup {Some(v) : v \in RamVals},
        c \in {None} \cup {Some(v) : v \in CoreVals}}

RecommendedVals ==
    {None, Some(<<>>), Some(<<sRTX3060>>), Some(<<sApple>>),
     Some(<<sAppleM1, sRtx3060Lower>>), Some(<<sTwoSpaces>>)}

\* The fields of a record object that scoring reads.
ScoreModels ==
    {[hardware_profile |-> p, recommended_for |-> rf] :
        p \in ProfileHints, rf \in RecommendedVals}

HwProfiles ==
    {Some([isAppleSilicon |-> a, approxMemoryGb |-> m, cores |-> c, gpu |-> g]) :
        a \in BOOLEAN,
        m \in {None} \cup {Some(v) : v \in RamVals},
        c \in {None} \cup {Some(v) : v \in CoreVals},
        g \in {<<>>, sGpuNvidia, sGpuApple, sGpuIntel}}

\* The values of the page's own variables while a pure function is applied.
PageIdle ==
    /\ pc = "idle"
    /\ records = <<>> /\ models = <<>> /\ hw = None
    /\ searchInput = <<>> /\ purposeSelect = "" /\ toolsSelect = ""
    /\ listText = "static" /\ listEl = <<>> /\ summaryEl = <<"static">>
    /\ wrappers = <<>> /\ scored = <<>> /\ lastEvent = "none"

----------------------------------------------------------------------------
(* Specification SpecScore: scoreModelForHardware applied to a record and   *)
(* to two profiles that differ only in approxMemoryGb.                      *)

InitScore ==
    /\ PageIdle
    /\ \E m \in ScoreModels, h \in HwProfiles \cup {None}, r \in RamVals :
          call = [fn |-> "score", model |-> m, hw |-> h, otherRam |-> r,
                  out |-> None, otherOut |-> None]

\* The profile of the call with approxMemoryGb replaced.
OtherHw == IF Has(call.hw)
           THEN Some([Val(call.hw) EXCEPT !.approxMemoryGb = Some(call.otherRam)])
           ELSE None

ScoreCall ==
    /\ call.out = None
    /\ call' = [call EXCEPT !.out = Some(scoreModelForHardware(call.model, call.hw))]
    /\ UNCHANGED pageVars

ScoreOtherCall ==
    /\ call.otherOut = None
    /\ call' = [call EXCEPT
                  !.otherOut = Some(scoreModelForHardware(call.model, OtherHw))]
    /\ UNCHANGED pageVars

NextScore == ScoreCall \/ ScoreOtherCall

SpecScore == InitScore /\ [][NextScore]_vars

\* The four factors of the claim, each from the claim's words.
ArchFactor(m, p) ==
    IF ~Has(m.hardware_profile) THEN 0
    ELSE IF p.isAppleSilicon /\ Val(m.hardware_profile).arch = "arm64" THEN 3
    ELSE IF ~p.isAppleSilicon /\ Val(m.hardware_profile).arch = "x86_64" THEN 2
    ELSE 0

MemoryFactor(m, p) ==
    IF ~Has(m.hardware_profile) \/ ~Has(p.approxMemoryGb) THEN 0
    ELSE IF ~Has(Val(m.hardware_profile).min_ram_gb) THEN 0
    ELSE IF Val(p.approxMemoryGb) >= Val(Val(m.hardware_profile).min_ram_gb) THEN 3
    ELSE -2

CoresFactor(m, p) ==
    IF ~Has(m.hardware_profile) \/ ~Has(p.cores) THEN 0
    ELSE IF ~Has(Val(m.hardware_profile).min_cores) THEN 0
    ELSE IF Val(p.cores) >= Val(Val(m.hardware_profile).min_cores) THEN 1
    ELSE 0

\* The second token of an entry: the text between its first and second space.
TokenOf(entry) ==
    LET low == toLowerCase(entry)
        sp == {i \in 1..Len(low) : low[i] = " "}
    IN IF sp = {} THEN <<>>
       ELSE LET a == CHOOSE i \in sp : \A j \in sp : i <= j
                rest == {i \in sp : i > a}
                b == IF rest = {} THEN Len(low) + 1
                     ELSE CHOOSE i \in rest : \A j \in rest : i <= j
            IN SubSeq(low, a + 1, b - 1)

GpuFactor(m, p) ==
    IF p.gpu = <<>> \/ ~Has(m.recommended_for) THEN 0
    ELSE IF \E k \in 1..Len(Val(m.recommended_for)) :
               includes(toLowerCase(p.gpu), TokenOf(Val(m.recommended_for)[k]))
         THEN 2
    ELSE 0

\* C6: the score is 0 without a hardware profile and otherwise the sum of the
\* arch, memory, cores and GPU factors, every absent field or hint giving 0.
C6_ScoreIsSumOfFactors ==
    (call.fn = "score" /\ Has(call.out)) =>
        Val(call.out) =
            IF ~Has(call.hw) THEN 0
            ELSE ArchFactor(call.model, Val(call.hw))
                 + MemoryFactor(call.model, Val(call.hw))
                 + CoresFactor(call.model, Val(call.hw))
                 + GpuFactor(call.model, Val(call.hw))

\* A score in which all four factors count: arch +2, memory -2, cores +1 and
\* GPU +2 through a lower-cased token.
C6_Witness ==
    /\ call.fn = "score" /\ Has(call.out) /\ Has(call.hw)
    /\ Val(call.out) = 3
    /\ ArchFactor(call.model, Val(call.hw)) = 2
    /\ MemoryFactor(call.model, Val(call.hw)) = -2
    /\ CoresFactor(call.model, Val(call.hw)) = 1
    /\ GpuFactor(call.model, Val(call.hw)) = 2
    /\ call.model.recommended_for = Some(<<sRTX3060>>)

\* The two profiles of the call lie on both sides of the hint's minRamGb.
RamCrossed ==
    /\ call.fn = "score" /\ Has(call.hw) /\ Has(call.out) /\ Has(call.otherOut)
    /\ Has(Val(call.hw).approxMemoryGb)
    /\ Has(call.model.hardware_profile)
    /\ Has(Val(call.model.hardware_profile).min_ram_gb)
    /\ Val(Val(call.hw).approxMemoryGb) < Val(Val(call.model.hardware_profile).min_ram_gb)
    /\ call.otherRam >= Val(Val(call.model.hardware_profile).min_ram_gb)

\* C7: with the other fields fixed, a profile at or above the hint's minRamGb
\* scores exactly 5 more than a profile below it.
C7_RamEffectIsFive ==
    RamCrossed => Val(call.otherOut) = Val(call.out) + 5

C7_Witness ==
    /\ RamCrossed
    /\ Val(call.out) = -2 /\ Val(call.otherOut) = 3

----------------------------------------------------------------------------
(* Catalogs *)

sM == <<"M", "x">>
sLl == <<"L", "l">>
sOl == <<"O", "l">>
sFast == <<"f", "a", "s", "t">>

\* The i-th record object of a generated models.json.
CatalogRecord(i) ==
    [id |-> i,
     model_name |-> IF i % 2 = 0 THEN sM ELSE sLl,
     display_name |-> IF i % 5 = 0 THEN <<>> ELSE sM,
     provider |-> sOl,
     notes |-> IF i % 6 = 0 THEN sFast ELSE <<>>,
     purpose |-> IF i % 3 = 2 THEN "coding" ELSE "general",
     supports_tools |-> (i % 3 = 0),
     recommended_for |->
         CASE i % 4 = 1 -> Some(<<sRTX3060>>)
           [] i % 4 = 2 -> Some(<<sApple>>)
           [] i % 8 = 3 -> Some(<<sAppleM1, sRtx3060Lower>>)
           [] OTHER -> None,
     hardware_profile |->
         IF i % 7 = 0 THEN None
         ELSE Some([arch |-> IF i % 3 = 0 THEN "x86_64" ELSE "arm64",
                    min_ram_gb |-> IF i % 4 = 0 THEN Some(16) ELSE Some(8),
                    min_cores |-> IF i % 6 = 0 THEN Some(4) ELSE None])]

CatalogOf(n) == Tuple([i \in 1..n |-> CatalogRecord(i)])

\* The profiles detectHardware() is taken to return.
hwApple == Some([isAppleSilicon |-> TRUE, approxMemoryGb |-> Some(16),
                 cores |-> Some(8), gpu |-> <<>>])
hwPC == Some([isAppleSilicon |-> FALSE, approxMemoryGb |-> Some(8),
              cores |-> None, gpu |-> sGpuNvidia])
hwBare == Some([isAppleSilicon |-> FALSE, approxMemoryGb |-> None,
                cores |-> None, gpu |-> <<>>])

\* What the user may type or select.
SearchTexts == {<<>>, <<" ">>, <<"R", "T", "X", " ">>, <<"x", " ", "O">>, <<"z">>}
\* What the user types on the page.
PageSearchTexts == {<<>>, <<"R", "T", "X", " ">>, <<"z">>}
PurposeValues == {"", "general", "coding"}
ToolsValues == {"", "true", "false"}

CatalogOrders(n) ==
    {Tuple(f) : f \in {g \in [1..n -> 1..n] : \A i, j \in 1..n : i # j => g[i] # g[j]}}

----------------------------------------------------------------------------
(* Specification SpecRank: one filter / score / sort pass over a catalog in *)
(* any order.                                                              *)

\* Number of records of the catalogs SpecRank permutes.
RankSize == 4

InitRank ==
    /\ PageIdle
    /\ \E order \in CatalogOrders(RankSize), h \in {None, hwApple, hwPC, hwBare},
          s \in SearchTexts, p \in PurposeValues, t \in ToolsValues :
          call = [fn |-> "rank", records |-> CatalogOf(RankSize), models |-> order,
                  hw |-> h, search |-> s, purpose |-> p, tools |-> t, out |-> None]

RankCall ==
    /\ call.out = None
    /\ call' = [call EXCEPT !.out =
                  Some(FilterScoreSort(call.records, call.models, call.hw,
                                       call.search, call.purpose, call.tools))]
    /\ UNCHANGED pageVars

NextRank == RankCall

SpecRank == InitRank /\ [][NextRank]_vars

\* Position of reference r in the array arr of distinct references.
IndexIn(arr, r) == CHOOSE i \in 1..Len(arr) : arr[i] = r

RankDone == call.fn = "rank" /\ Has(call.out)

\* C5: the ranked result holds exactly the filtered records, in non-increasing
\* score order, records of equal score in their catalog order.
C5_RankedIsStableDescending ==
    RankDone =>
        LET ranked == Val(call.out).scored
            filtered == Val(call.out).filtered
        IN /\ Len(ranked) = Len(filtered)
           /\ \A k \in 1..Len(filtered) :
                 \E i \in 1..Len(ranked) : ranked[i].model = filtered[k]
           /\ \A i \in 1..Len(ranked) :
                 ranked[i].score =
                     scoreModelForHardware(call.records[ranked[i].model], call.hw)
           /\ \A i, j \in 1..Len(ranked) :
                 i < j =>
                   /\ ranked[i].score >= ranked[j].score
                   /\ ranked[i].score = ranked[j].score =>
                        IndexIn(call.models, ranked[i].model)
                            < IndexIn(call.models, ranked[j].model)

\* A pass whose ranking moved a record ahead of an earlier one and kept three
\* records of equal score in an order that is not the order of the references.
C5_Witness ==
    /\ RankDone
    /\ call.models = <<4, 3, 1, 2>>
    /\ call.hw = hwApple
    /\ [i \in 1..4 |-> Val(call.out).scored[i].model] = <<4, 1, 2, 3>>

\* The criteria of the pass: the search text is the input lower-cased and trimmed.
SearchCriterion == trim(toLowerCase(call.search))

Satisfies(rec) ==
    /\ call.purpose # "" => rec.purpose = call.purpose
    /\ call.tools # "" => rec.supports_tools = (call.tools = "true")
    /\ SearchCriterion # <<>> => includes(haystack(rec), SearchCriterion)

\* C8: the filtered result is the catalog subsequence of the records that
\* satisfy every set criterion, and the three filters give it in all six orders.
C8_FilterConjunctiveAnyOrder ==
    RankDone =>
        LET want == SelectSeq(call.models, LAMBDA r : Satisfies(call.records[r]))
            P(a) == purposeFilter(call.records, a, call.purpose)
            T(a) == toolsFilter(call.records, a, call.tools)
            S(a) == searchFilter(call.records, a, SearchCriterion)
        IN /\ Val(call.out).filtered = want
           /\ S(T(P(call.models))) = want
           /\ T(S(P(call.models))) = want
           /\ S(P(T(call.models))) = want
           /\ P(S(T(call.models))) = want
           /\ T(P(S(call.models))) = want
           /\ P(T(S(call.models))) = want

\* A pass in which all three criteria are set, each of them alone keeps a
\* record the conjunction drops (purpose keeps 4, 3, 1; tools keeps 4, 1, 2;
\* the search keeps 3, 1), and the result is neither empty nor everything.
C8_Witness ==
    /\ RankDone
    /\ call.purpose = "general" /\ call.tools = "false"
    /\ call.search = <<"R", "T", "X", " ">>
    /\ call.models = <<4, 3, 1, 2>>
    /\ purposeFilter(call.records, call.models, "general") = <<4, 3, 1>>
    /\ toolsFilter(call.records, call.models, "false") = <<4, 1, 2>>
    /\ searchFilter(call.records, call.models, <<"r", "t", "x">>) = <<3, 1>>
    /\ Val(call.out).filtered = <<1>>

----------------------------------------------------------------------------
(* The page: init() 443-472, filterAndRender 217-427 *)

PAGE_SIZE == 10

\* Sizes of the catalogs models.json may hold: empty, small, and large enough
\* for three pages.
SmallSize == 3
BigSize == 25
CatalogSizes == {0, SmallSize, BigSize}

\* Most show-more wrappers the page is let to accumulate.
MaxWrappers == 1

\* The card of one scored entry; flagged carries the "recommended" chip.
Card(entry, flagged) == [model |-> entry.model, best |-> flagged]

\* The cards of pageSlice, 236-316: chip when score >= topScore && score > 0
PageCards(sc) ==
    LET topScore == sc[1].score
    IN Tuple([i \in 1..Min(PAGE_SIZE, Len(sc)) |->
                Card(sc[i], sc[i].score >= topScore /\ sc[i].score > 0)])

\* The cards of nextSlice, 338-415: chip when, besides, alreadyShown === 0
NextCards(w, alreadyShown) ==
    LET nextSlice == SubSeq(w.scored, alreadyShown + 1,
                            Min(alreadyShown + PAGE_SIZE, Len(w.scored)))
    IN Tuple([i \in 1..Len(nextSlice) |->
                Card(nextSlice[i],
                     /\ nextSlice[i].score >= w.topScore
                     /\ nextSlice[i].score > 0
                     /\ alreadyShown = 0)])

\* The show-more wrappers after the pass: one more if scored.length > PAGE_SIZE.
WrappersAfter(sc, wr) ==
    IF Len(sc) > PAGE_SIZE                                              \* 318-427
    THEN Append(wr, [scored |-> sc, topScore |-> sc[1].score,
                     text |-> Min(PAGE_SIZE, Len(sc) - PAGE_SIZE)])
    ELSE wr

\* The page a pass leaves, from its scored array.
RenderScored(sc, wr) ==
    IF Len(sc) = 0
    THEN [listEl |-> <<>>, summaryEl |-> <<"nomatch">>, wrappers |-> wr] \* 219-224
    ELSE [listEl |-> PageCards(sc),
          summaryEl |-> <<"count", Len(sc), Min(PAGE_SIZE, Len(sc))>>,  \* 226-231
          wrappers |-> WrappersAfter(sc, wr)]

\* The page after filterAndRender(models, hw) with the controls at s, p, t.
RenderPass(pass, wr) ==
    [models |-> pass.models, scored |-> pass.scored,
     page |-> RenderScored(pass.scored, wr)]

Rendered(recs, mods, h, s, p, t, wr) ==
    RenderPass(FilterScoreSort(recs, mods, h, s, p, t), wr)

\* The page takes the outcome r of a pass.
ShowPage(r) ==
    /\ Len(r.page.wrappers) <= MaxWrappers
    /\ models' = r.models
    /\ scored' = r.scored
    /\ listText' = ""
    /\ listEl' = r.page.listEl
    /\ summaryEl' = r.page.summaryEl
    /\ wrappers' = r.page.wrappers

\* filterAndRender as a step of the page.
filterAndRender(recs, mods, s, p, t) ==
    ShowPage(Rendered(recs, mods, hw, s, p, t, wrappers))

Init ==
    /\ pc = "loading"
    /\ records = <<>> /\ models = <<>>
    /\ hw \in {hwApple, hwPC, hwBare}
    /\ searchInput = <<>> /\ purposeSelect = "" /\ toolsSelect = ""
    /\ listText = "static" /\ listEl = <<>> /\ summaryEl = <<"static">>
    /\ wrappers = <<>> /\ scored = <<>>
    /\ lastEvent = "none"
    /\ call = [fn |-> "none"]

\* loadModels() resolved with a catalog of n records; init() runs on to the end
\* of its synchronous part: listeners attached, first pass if models.length.
LoadModelsOk(n) ==
    /\ pc = "loading"
    /\ pc' = "ready"
    /\ records' = CatalogOf(n)
    /\ lastEvent' = "load"
    /\ IF n > 0
       THEN filterAndRender(CatalogOf(n), Tuple([i \in 1..n |-> i]),
                            searchInput, purposeSelect, toolsSelect)
       ELSE /\ models' = <<>>
            /\ UNCHANGED <<scored, listText, listEl, summaryEl, wrappers>>
    /\ UNCHANGED <<hw, searchInput, purposeSelect, toolsSelect, call>>

\* loadModels() threw: the catch of init() writes the failure text, models = [].
LoadModelsFail ==
    /\ pc = "loading"
    /\ pc' = "ready"
    /\ records' = <<>>
    /\ models' = <<>>
    /\ listText' = "failed"
    /\ lastEvent' = "loadfail"
    /\ UNCHANGED <<hw, searchInput, purposeSelect, toolsSelect, scored, listEl,
                   summaryEl, wrappers, call>>

\* The listeners attached before the await of loadModels(): an event runs a
\* pass whether or not the catalog has arrived.
RerenderEarly(s, p, t) ==
    /\ records' = records
    /\ filterAndRender(records, models, s, p, t)
    /\ lastEvent' = "filter"
    /\ UNCHANGED <<pc, hw, call>>

\* An event on one of the three controls: the control takes its new value; the
\* rerender listener runs if init() has attached it.
Rerender(s, p, t) ==
    /\ records' = records
    /\ IF pc = "ready"
       THEN /\ filterAndRender(records, models, s, p, t)
            /\ lastEvent' = "filter"
       ELSE UNCHANGED <<models, scored, listText, listEl, summaryEl, wrappers,
                        lastEvent>>
    /\ UNCHANGED <<pc, hw, call>>

SearchInput(v) ==
    /\ v # searchInput
    /\ searchInput' = v
    /\ UNCHANGED <<purposeSelect, toolsSelect>>
    /\ Rerender(v, purposeSelect, toolsSelect)

PurposeChange(v) ==
    /\ v # purposeSelect
    /\ purposeSelect' = v
    /\ UNCHANGED <<searchInput, toolsSelect>>
    /\ Rerender(searchInput, v, toolsSelect)

ToolsChange(v) ==
    /\ v # toolsSelect
    /\ toolsSelect' = v
    /\ UNCHANGED <<searchInput, purposeSelect>>
    /\ Rerender(searchInput, purposeSelect, v)

\* A sequence without its i-th element (showMoreWrapper.remove()).
RemoveAt(seq, i) == SubSeq(seq, 1, i - 1) \o SubSeq(seq, i + 1, Len(seq))

\* Click on the button of the i-th wrapper of the page, 336-423.
ShowMoreClick(i) ==
    /\ i \in 1..Len(wrappers)
    /\ LET w == wrappers[i]
           alreadyShown == Len(listEl)
           shown == listEl \o NextCards(w, alreadyShown)
           remaining == Len(w.scored) - Len(shown)
       IN /\ listEl' = shown
          /\ wrappers' = IF remaining <= 0 THEN RemoveAt(wrappers, i)
                         ELSE [wrappers EXCEPT ![i].text = Min(PAGE_SIZE, remaining)]
    /\ lastEvent' = "more"
    /\ UNCHANGED <<pc, records, models, hw, searchInput, purposeSelect, toolsSelect,
                   listText, summaryEl, scored, call>>

Next ==
    \/ \E n \in CatalogSizes : LoadModelsOk(n)
    \/ LoadModelsFail
    \/ \E v \in PageSearchTexts : SearchInput(v)
    \/ \E v \in PurposeValues : PurposeChange(v)
    \/ \E v \in ToolsValues : ToolsChange(v)
    \/ \E i \in 1..MaxWrappers : ShowMoreClick(i)

Spec == Init /\ [][Next]_vars

----------------------------------------------------------------------------
(* Properties of the page *)

\* The references of the displayed cards, in document order.
Displayed == Tuple([i \in 1..Len(listEl) |-> listEl[i].model])

\* The references of the current ranking.
Ranking == Tuple([i \in 1..Len(scored) |-> scored[i].model])

IsPrefix(a, b) == Len(a) <= Len(b) /\ a = SubSeq(b, 1, Len(a))

\* A step that handles a click on a show-more button.
RevealStep ==
    /\ lastEvent' = "more"
    /\ listEl' # listEl \/ wrappers' # wrappers

\* C1: right after a filter change the displayed list is the first
\* min(10, totalCount) records of the new ranking, and whatever show-more
\* control is clicked afterwards, the displayed list stays a prefix of the
\* current ranking.
C1_DisplayedIsPrefixOfRanking ==
    /\ lastEvent = "filter" =>
          Displayed = SubSeq(Ranking, 1, Min(PAGE_SIZE, Len(Ranking)))
    /\ IsPrefix(Displayed, Ranking)

\* C2: within a filter session over n ranked records a reveal-more moves
\* revealedCount from r to min(r + 10, n), appending the ranked records r .. in
\* ranked order, and revealedCount never exceeds n.
C2_RevealMoreAdvancesByPage ==
    [][RevealStep =>
          /\ Len(listEl') = Min(Len(listEl) + PAGE_SIZE, Len(scored))
          /\ Len(listEl') <= Len(scored)
          /\ Tuple([i \in 1..Len(listEl') |-> listEl'[i].model])
                 = SubSeq(Ranking, 1, Len(listEl'))]_vars

\* What C2 states does hold of a click on the wrapper of the current ranking
\* while the list shows a prefix of that ranking: the failure of C2 comes from
\* the wrappers that earlier passes left on the page.
RevealOfCurrentRanking ==
    [][\A i \in 1..Len(wrappers) :
          (ShowMoreClick(i) /\ wrappers[i].scored = scored
             /\ IsPrefix(Displayed, Ranking)) =>
              /\ Len(listEl') = Min(Len(listEl) + PAGE_SIZE, Len(scored))
              /\ Tuple([k \in 1..Len(listEl') |-> listEl'[k].model])
                     = SubSeq(Ranking, 1, Len(listEl'))
              /\ (Len(listEl') = Len(scored)) = (Len(wrappers') < Len(wrappers))]_vars

\* C3: a show-more control is on the page only while the current result set
\* has unrevealed records.
C3_ShowMoreOnlyIfUnrevealed ==
    wrappers # <<>> => Len(listEl) < Len(scored)

\* The maximum score of the current result set (0 when it is empty).
TopScore == IF scored = <<>> THEN 0 ELSE scored[1].score

\* C4: a displayed record carries the best-match flag exactly when its score
\* equals the maximum score of the result set and that maximum is > 0.
C4_BestMatchOnEveryTopScore ==
    \A i \in 1..Len(listEl) :
        listEl[i].best <=>
            /\ TopScore > 0
            /\ scoreModelForHardware(records[listEl[i].model], hw) = TopScore

\* C9: with an empty catalog (failed load or empty models.json) the page is in
\* the empty state from start-up on: no records displayed, the "no matches"
\* signal shown, no show-more control.
C9_EmptyCatalogShowsNoMatches ==
    (pc = "ready" /\ models = <<>>) =>
        /\ listEl = <<>>
        /\ summaryEl = <<"nomatch">>
        /\ wrappers = <<>>

\* C10: no render pass and no reveal-more changes the loaded catalog array, its
\* record objects or the hardware profile; the first pass leaves the catalog
\* as loadModels() delivered it.
C10_CatalogNeverMutated ==
    [][/\ hw' = hw
       /\ pc = "ready" => (models' = models /\ records' = records)
       /\ (pc = "loading" /\ pc' = "ready") =>
              /\ records' = CatalogOf(Len(records'))
              /\ models' = Tuple([i \in 1..Len(records') |-> i])]_vars

\* After a filter change and a reveal-more, over a ranking whose order is not
\* the catalog's order.
C10_Witness ==
    /\ lastEvent = "more"
    /\ purposeSelect = "general"
    /\ Len(listEl) > PAGE_SIZE
    /\ \E i, j \in 1..Len(scored) : i < j /\ scored[i].model > scored[j].model
    /\ models = Tuple([i \in 1..BigSize |-> i])

\* A filterAndRender pass has run.
PassRan ==
    \/ lastEvent \in {"filter", "more"}
    \/ lastEvent = "load" /\ models # <<>>

\* C11: while loadModels() is in flight no pass runs, whatever the user types
\* or selects: the page is as the document delivered it; and every pass that
\* has run ranked the whole loaded catalog under the controls' current values.
C11_NoPassBeforeCatalogLoaded ==
    /\ pc = "loading" =>
          /\ ~PassRan
          /\ models = <<>> /\ scored = <<>>
          /\ listEl = <<>> /\ wrappers = <<>>
          /\ listText = "static" /\ summaryEl = <<"static">>
    /\ PassRan =>
          /\ pc = "ready"
          /\ records = CatalogOf(Len(records))
          /\ models = Tuple([i \in 1..Len(records) |-> i])
          /\ scored = FilterScoreSort(records, Tuple([i \in 1..Len(records) |-> i]),
                                      hw, searchInput, purposeSelect,
                                      toolsSelect).scored

\* The user typed and selected while the load was in flight, no pass ran, and
\* the first pass, run when the catalog arrived, ranked all of it under those
\* values: the seven records of the 25 that match "rtx" and are "general".
C11_Witness ==
    /\ pc = "ready" /\ lastEvent = "load"
    /\ searchInput = <<"R", "T", "X", " ">> /\ purposeSelect = "general"
    /\ Len(records) = BigSize
    /\ Len(scored) > 0 /\ Len(scored) < Len(records)
    /\ summaryEl = <<"count", Len(scored), Len(scored)>>

\* The load is still in flight and the controls already hold a user's input.
C11_InputWhileLoading ==
    /\ pc = "loading"
    /\ searchInput # <<>> /\ purposeSelect # "" /\ toolsSelect # ""

====
